---- MODULE Spec2Model ----
(***************************************************************************)
(* A model of the two engines of the widgets repository:                   *)
(*   - GoroutinePool (elastic worker pool): Submit, Wait, Release, the     *)
(*     dispatcher goroutine, the worker goroutines and the scaler.         *)
(*   - TimeWheel (hashed timing wheel): AddTask, RemoveTask, tick.         *)
(* Every goroutine is a process with a program counter; a step is one      *)
(* channel operation, one critical section of pool.lock, or one call that  *)
(* touches shared state without the lock.  A panic that nothing recovers   *)
(* ends the Go process: it is recorded in `crashed` and disables every     *)
(* action.                                                                 *)
(***************************************************************************)
EXTENDS Integers, Sequences, FiniteSets, TLC

\* ------------------------------------------------------------------ bounds
\* NewGoroutinePool's maxWorkers argument.
MaxWorkers == 2
\* WithTaskQueueSize's argument: the capacity of pool.taskQueue.
QueueCap == 2
\* The number of Submit calls the client makes.
MaxTasks == 3
\* The largest WithRetryCount argument.
MaxRetry == 1
\* Removed workers that still owe their cond.Signal (see adjustWorkers).
MaxOrphanSignals == 1

\* NewTimeWheel's slotNum argument.
SlotNumArg == 10
\* NewTimeWheel's interval argument, in time units.
Interval == 2
\* The number of AddTask calls the caller makes.
MaxAdds == 2
\* The number of threads that call Stop, and the calls each of them makes.
MaxStoppers == 2
MaxStopCalls == 2

\* ---------------------------------------------------------------- constants
\* NewTimeWheel raises slotNum to this floor.
MinSlotNum == 10
\* time.Second, the interval NewTimeWheel falls back to, in time units.
Second == 1000000000

\* ----------------------------------------------------------------- helpers
Min(a, b) == IF a < b THEN a ELSE b

Range(s) == {s[i] : i \in 1..Len(s)}

Front(s) == SubSeq(s, 1, Len(s) - 1)

Last(s) == s[Len(s)]

Take(s, n) == SubSeq(s, 1, n)

\* Go's integer division truncates toward zero, and % takes the dividend's sign.
GoDiv(a, b) ==
  IF a >= 0 THEN a \div b ELSE -((-a) \div b)

GoMod(a, b) == a - b * GoDiv(a, b)

RECURSIVE Insert(_, _)
Insert(x, s) ==
  IF s = <<>> THEN <<x>>
  ELSE IF x <= Head(s) THEN <<x>> \o s
  ELSE <<Head(s)>> \o Insert(x, Tail(s))

\* sort.Ints
RECURSIVE SortInts(_)
SortInts(s) ==
  IF s = <<>> THEN <<>> ELSE Insert(Head(s), SortInts(Tail(s)))

\* ---------------------------------------------------------------- variables
VARIABLES
  \* GoroutinePool fields
  maxWorkers, minWorkers, taskQueueSize, retryCount, timeout,
  resultCallback, errCallback,
  taskQueue, queueClosed,      \* pool.taskQueue: buffered items, closed flag
  workers,                     \* pool.workers: the worker at each position
  workerStack,                 \* pool.workerStack
  cancelled,                   \* pool.ctx is done
  condWaiters,                 \* goroutines blocked in pool.cond.Wait
  \* Worker objects, by worker index
  mailbox, mailboxClosed,      \* Worker.taskQueue (capacity 1) and closed flag
  wpc, wtask, attempt, werr,   \* worker goroutine: position, task, loop var i, err
  body,                        \* the nested goroutine of executeTaskWithTimeout
  orphanSignals,               \* removed workers between pushWorker's Unlock and Signal
  \* dispatcher, scaler and caller threads
  dpc, hand, didx,             \* dispatch(): position, task t, workerIndex
  spc,                         \* adjustWorkers(): position
  cpc, nextTask,               \* the thread calling Submit; tasks enqueued so far
  rpc,                         \* the thread calling Release
  waitPc, waitLen,             \* the thread calling Wait; its workerStackLen
  crashed,                     \* "none", or the unrecovered panic
  outcomes,                    \* what a task body may return: "ok", "err"
  \* history (not program state)
  hist, resultCalls, errCalls, done, blockedTasks, rsnap, waitSnap,
  \* TimeWheel fields
  interval,                    \* tick interval, in time units
  slots,                       \* slots[p]: the list of TaskElements of slot p
  taskMap,                     \* key -> the list element (0: no entry)
  elems,                       \* the TaskElement each list element points to
  curSlot,
  \* the thread calling AddTask / RemoveTask
  apc, areq,                   \* position; the TaskElement AddTask built
  nAdds,                       \* AddTask calls made so far
  \* history (not program state): what became of each AddTask call
  regs,
  \* the goroutine execute() starts for each launched element
  taskRun,                          \* "none", "running", "returned", "recovered", "died"
  \* run(), the ticker, stopChan and the embedded sync.Once
  loopPc,                      \* run(): "running" or "returned"
  tickerStopped, tickC,        \* ticker.Stop() was called; ticks left in ticker.C
  stopClosed,                  \* stopChan is closed
  onceDone, onceLock,          \* sync.Once: done flag; holder of its mutex (0: free)
  stopPc, stopRet,             \* each Stop caller: position; calls returned
  wheelPanic,                  \* "none", or the unrecovered panic
  \* history (not program state)
  tickerStops, closes,         \* ticker.Stop() calls and close(stopChan) calls made
  \* DefaultContainer fields
  interfaceMap,                \* name -> registered impl (Absent: no entry)
  typeMap,                     \* pointer type *T, by T -> registered impl
  status,
  \* the objects handed to Register: for each type, the fields of its object
  heap,
  \* the caller of the container
  diPanic,                     \* "none", or the panic the last call ended in
  \* history (not program state)
  injected                     \* the types AfterInject ran for in the last Initialize

cfgVars == <<maxWorkers, minWorkers, taskQueueSize, retryCount, timeout,
             resultCallback, errCallback, outcomes>>
queueVars == <<taskQueue, queueClosed>>
workerVars == <<mailbox, mailboxClosed, wpc, wtask, attempt, werr, body>>
histVars == <<hist, resultCalls, errCalls, done>>
dispVars == <<dpc, hand, didx>>
clientVars == <<cpc, nextTask, blockedTasks>>
waitVars == <<waitPc, waitLen, waitSnap>>
relVars == <<rpc, rsnap>>

poolVars == <<cfgVars, queueVars, workers, workerStack, cancelled, condWaiters,
              workerVars, orphanSignals, dispVars, spc, clientVars, relVars,
              waitVars, crashed, histVars>>

stopVars == <<loopPc, tickerStopped, tickC, stopClosed, onceDone, onceLock,
              stopPc, stopRet, wheelPanic, tickerStops, closes>>

wheelVars == <<interval, slots, taskMap, elems, curSlot, apc, areq, nAdds, regs,
               taskRun, stopVars>>

diVars == <<interfaceMap, typeMap, status, heap, diPanic, injected>>

vars == <<poolVars, wheelVars, diVars>>

\* The largest pool any specification creates has MaxWorkers + 1 workers.
WorkerIds == 0..MaxWorkers
Tasks == 1..MaxTasks

Alive == crashed = "none"

\* ------------------------------------------------------- NewGoroutinePool
\* The option values a pool is created with; worker i sits at position i + 1 of
\* `workers` (Go index i).
Indices(n) == [i \in 1..n |-> i - 1]

NewGoroutinePool(max, min, qsize, retry, tmo, rcb, ecb, outs) ==
  /\ outcomes = outs
  /\ maxWorkers = max
  /\ minWorkers = min
  /\ taskQueueSize = qsize
  /\ retryCount = retry
  /\ timeout = tmo
  /\ resultCallback = rcb
  /\ errCallback = ecb
  /\ taskQueue = <<>>
  /\ queueClosed = FALSE
  /\ workers = Indices(min)
  /\ workerStack = Indices(min)
  /\ cancelled = FALSE
  /\ condWaiters = {}
  /\ mailbox = [i \in WorkerIds |-> <<>>]
  /\ mailboxClosed = [i \in WorkerIds |-> FALSE]
  /\ wpc = [i \in WorkerIds |-> IF i < min THEN "idle" ELSE "none"]
  /\ wtask = [i \in WorkerIds |-> 0]
  /\ attempt = [i \in WorkerIds |-> 0]
  /\ werr = [i \in WorkerIds |-> FALSE]
  /\ body = [i \in WorkerIds |-> "none"]
  /\ orphanSignals = 0
  /\ dpc = "recv"
  /\ hand = 0
  /\ didx = 0
  /\ spc = "loop"
  /\ cpc = "idle"
  /\ nextTask = 0
  /\ rpc = "none"
  /\ waitPc = "none"
  /\ waitLen = 0
  /\ crashed = "none"
  /\ hist = [t \in Tasks |-> <<>>]
  /\ resultCalls = [t \in Tasks |-> 0]
  /\ errCalls = [t \in Tasks |-> 0]
  /\ done = {}
  /\ blockedTasks = {}
  /\ rsnap = {}
  /\ waitSnap = {}

\* ------------------------------------------------------------- sync.Cond
\* Wake the goroutines in S: each returns from cond.Wait and re-locks, which puts
\* it back at the head of its wait loop.
Wake(S) ==
  /\ condWaiters' = condWaiters \ S
  /\ dpc' = IF "dispatch" \in S THEN "check" ELSE dpc
  /\ rpc' = IF "release" \in S THEN "check" ELSE rpc

\* cond.Signal wakes one waiter, if there is any.
Signal ==
  \E S \in (IF condWaiters = {} THEN {{}} ELSE {{w} : w \in condWaiters}) : Wake(S)

\* cond.Broadcast wakes every waiter.
Broadcast == Wake(condWaiters)

\* ------------------------------------------------------------------ Submit
\* Submit is a blocking send on pool.taskQueue: the call is issued, and the send
\* completes when the queue has room.
SubmitCall ==
  /\ Alive
  /\ cpc = "idle"
  /\ nextTask < MaxTasks
  /\ cpc' = "send"
  /\ blockedTasks' = IF ~queueClosed /\ Len(taskQueue) >= taskQueueSize
                     THEN blockedTasks \cup {nextTask + 1} ELSE blockedTasks
  /\ UNCHANGED <<diVars, wheelVars, cfgVars, queueVars, workers, workerStack, cancelled, condWaiters,
                 workerVars, orphanSignals, dispVars, spc, nextTask, relVars,
                 waitVars, crashed, histVars>>

\* CanSend with the capacity test off by one.
CanSendOffByOne(q, cap) == Len(q) <= cap

\* Whether a send on a channel holding q of capacity cap can proceed.
CanSend(q, cap) == Len(q) < cap

\* SendPanics for a channel on which a send after close just blocks.
SendBlocksOnClosed(closed) == FALSE

\* A send on a closed channel panics, also one that was blocked when the channel
\* was closed.
SendPanics(closed) == closed

SubmitSend ==
  /\ Alive
  /\ cpc = "send"
  /\ IF SendPanics(queueClosed)
     THEN \* send on closed channel
          /\ crashed' = "send on closed channel"
          /\ UNCHANGED <<taskQueue, cpc, nextTask>>
     ELSE /\ CanSend(taskQueue, taskQueueSize)
          /\ taskQueue' = Append(taskQueue, nextTask + 1)
          /\ nextTask' = nextTask + 1
          /\ cpc' = "idle"
          /\ UNCHANGED crashed
  /\ UNCHANGED <<diVars, wheelVars, cfgVars, queueClosed, workers, workerStack, cancelled, condWaiters,
                 workerVars, orphanSignals, dispVars, spc, blockedTasks, relVars,
                 waitVars, histVars>>

\* ---------------------------------------------------------------- dispatch
\* ChanRecv for a channel that hands out its newest item.
ChanRecvNewest(q) == [item |-> Last(q), rest |-> Front(q)]

\* A receive on a buffered channel holding q takes the oldest item.
ChanRecv(q) == [item |-> Head(q), rest |-> Tail(q)]

\* for t := range pool.taskQueue
DispatchRecv ==
  /\ Alive
  /\ dpc = "recv"
  /\ IF taskQueue # <<>>
     THEN /\ hand' = ChanRecv(taskQueue).item
          /\ taskQueue' = ChanRecv(taskQueue).rest
          /\ dpc' = "check"
     ELSE /\ queueClosed
          /\ dpc' = "done"
          /\ UNCHANGED <<hand, taskQueue>>
  /\ UNCHANGED <<diVars, wheelVars, cfgVars, queueClosed, workers, workerStack, cancelled, condWaiters,
                 workerVars, orphanSignals, didx, spc, clientVars, relVars,
                 waitVars, crashed, histVars>>

\* Lock; for len(pool.workerStack) == 0 { cond.Wait() }; Unlock
DispatchCheck ==
  /\ Alive
  /\ dpc = "check"
  /\ IF Len(workerStack) = 0
     THEN /\ condWaiters' = condWaiters \cup {"dispatch"}
          /\ dpc' = "waiting"
     ELSE /\ dpc' = "pop"
          /\ UNCHANGED condWaiters
  /\ UNCHANGED <<diVars, wheelVars, cfgVars, queueVars, workers, workerStack, cancelled,
                 workerVars, orphanSignals, hand, didx, spc, clientVars, relVars,
                 waitVars, crashed, histVars>>

\* popWorker
DispatchPop ==
  /\ Alive
  /\ dpc = "pop"
  /\ IF Len(workerStack) = 0
     THEN /\ crashed' = "index out of range"
          /\ UNCHANGED <<workerStack, didx, dpc>>
     ELSE /\ didx' = Last(workerStack)
          /\ workerStack' = Front(workerStack)
          /\ dpc' = "send"
          /\ UNCHANGED crashed
  /\ UNCHANGED <<diVars, wheelVars, cfgVars, queueVars, workers, cancelled, condWaiters,
                 workerVars, orphanSignals, hand, spc, clientVars, relVars,
                 waitVars, histVars>>

\* pool.workers[workerIndex].taskQueue <- t
DispatchSend ==
  /\ Alive
  /\ dpc = "send"
  /\ IF didx >= Len(workers)
     THEN /\ crashed' = "index out of range"
          /\ UNCHANGED <<mailbox, hand, dpc>>
     ELSE IF mailboxClosed[workers[didx + 1]]
     THEN /\ crashed' = "send on closed channel"
          /\ UNCHANGED <<mailbox, hand, dpc>>
     ELSE /\ CanSend(mailbox[workers[didx + 1]], 1)
          /\ mailbox' = [mailbox EXCEPT ![workers[didx + 1]] = Append(@, hand)]
          /\ hand' = 0
          /\ dpc' = "recv"
          /\ UNCHANGED crashed
  /\ UNCHANGED <<diVars, wheelVars, cfgVars, queueVars, workers, workerStack, cancelled, condWaiters,
                 mailboxClosed, wpc, wtask, attempt, werr, body, orphanSignals,
                 didx, spc, clientVars, relVars, waitVars, histVars>>

\* ------------------------------------------------------------------ Worker
\* Worker.start: t, ok := <-w.taskQueue
WorkerTake(i) ==
  /\ Alive
  /\ wpc[i] = "idle"
  /\ IF mailbox[i] # <<>>
     THEN /\ wtask' = [wtask EXCEPT ![i] = Head(mailbox[i])]
          /\ mailbox' = [mailbox EXCEPT ![i] = Tail(@)]
          /\ attempt' = [attempt EXCEPT ![i] = 0]
          /\ wpc' = [wpc EXCEPT ![i] = "exec"]
     ELSE \* the range loop ends when the mailbox is closed and drained
          /\ mailboxClosed[i]
          /\ wpc' = [wpc EXCEPT ![i] = "exited"]
          /\ UNCHANGED <<wtask, mailbox, attempt>>
  /\ UNCHANGED <<diVars, wheelVars, cfgVars, queueVars, workers, workerStack, cancelled, condWaiters,
                 mailboxClosed, werr, body, orphanSignals, dispVars, spc,
                 clientVars, relVars, waitVars, crashed, histVars>>

\* executeTask's loop test after an attempt that ended with error flag e:
\* if err == nil || i == pool.retryCount { return result, err }
AttemptReturns(e, i, retry) == ~e \/ i = retry

\* executeTask's loop after an attempt of worker i's task ended with outcome o
\* ("ok", "err" or "timeout"): return to start, or go round again.
AttemptLoop(i, o) ==
  IF AttemptReturns(o # "ok", attempt[i], retryCount)
  THEN /\ werr' = [werr EXCEPT ![i] = (o # "ok")]
       /\ wpc' = [wpc EXCEPT ![i] = "handle"]
       /\ UNCHANGED attempt
  ELSE /\ attempt' = [attempt EXCEPT ![i] = @ + 1]
       /\ wpc' = [wpc EXCEPT ![i] = "exec"]
       /\ UNCHANGED werr

\* The same, with the attempt's outcome entered in the task's history.
AfterAttempt(i, o) ==
  /\ hist' = [hist EXCEPT ![wtask[i]] = Append(@, o)]
  /\ AttemptLoop(i, o)

\* executeTaskWithoutTimeout: the body runs on the worker goroutine and returns
\* (result, nil) or (_, err).
WorkerRunBody(i) ==
  /\ Alive
  /\ wpc[i] = "exec"
  /\ ~timeout
  /\ \E o \in outcomes : AfterAttempt(i, o)
  /\ UNCHANGED <<diVars, wheelVars, cfgVars, queueVars, workers, workerStack, cancelled, condWaiters,
                 mailbox, mailboxClosed, wtask, body, orphanSignals, dispVars, spc,
                 clientVars, relVars, waitVars, crashed, resultCalls, errCalls, done>>

\* executeTaskWithTimeout: start the nested goroutine, then select.
WorkerSpawn(i) ==
  /\ Alive
  /\ wpc[i] = "exec"
  /\ timeout
  /\ wpc' = [wpc EXCEPT ![i] = "select"]
  /\ body' = [body EXCEPT ![i] = "running"]
  /\ UNCHANGED <<diVars, wheelVars, cfgVars, queueVars, workers, workerStack, cancelled, condWaiters,
                 mailbox, mailboxClosed, wtask, attempt, werr, orphanSignals,
                 dispVars, spc, clientVars, relVars, waitVars, crashed, histVars>>

\* The nested goroutine: res, err := t() returns; it then offers res on
\* resultChan and err on errChan in one select.
BodyReturn(i) ==
  /\ Alive
  /\ body[i] = "running"
  /\ \E o \in outcomes : body' = [body EXCEPT ![i] = o]
  /\ UNCHANGED <<diVars, wheelVars, cfgVars, queueVars, workers, workerStack, cancelled, condWaiters,
                 mailbox, mailboxClosed, wpc, wtask, attempt, werr, orphanSignals,
                 dispVars, spc, clientVars, relVars, waitVars, crashed, histVars>>

\* The worker's position after `case result = <-resultChan:` was taken: it goes
\* on to `err = <-errChan`.
AfterResultRecv == "recvErr"

\* case result = <-resultChan: the rendezvous with the nested goroutine's send
\* `case resultChan <- res:`.  That send completes the nested goroutine's select,
\* so the goroutine returns without sending on errChan.
WorkerRecvResult(i) ==
  /\ Alive
  /\ wpc[i] = "select"
  /\ body[i] \in {"ok", "err"}
  /\ hist' = [hist EXCEPT ![wtask[i]] = Append(@, body[i])]
  /\ wpc' = [wpc EXCEPT ![i] = AfterResultRecv]
  /\ body' = [body EXCEPT ![i] = "none"]
  /\ UNCHANGED <<diVars, wheelVars, cfgVars, queueVars, workers, workerStack, cancelled, condWaiters,
                 mailbox, mailboxClosed, wtask, attempt, werr, orphanSignals,
                 dispVars, spc, clientVars, relVars, waitVars, crashed,
                 resultCalls, errCalls, done>>

\* err = <-errChan: a receive on the unbuffered errChan, which needs the nested
\* goroutine to be in its select, offering the send.
WorkerRecvErr(i) ==
  /\ Alive
  /\ wpc[i] = "recvErr"
  /\ body[i] \in {"ok", "err"}
  /\ body' = [body EXCEPT ![i] = "none"]
  /\ AttemptLoop(i, body[i])
  /\ UNCHANGED <<diVars, wheelVars, cfgVars, queueVars, workers, workerStack, cancelled,
                 condWaiters, mailbox, mailboxClosed, wtask, orphanSignals, dispVars,
                 spc, clientVars, relVars, waitVars, crashed, histVars>>

\* case <-ctx.Done(): the deadline passed; the attempt returns (nil, "task
\* timeout") and the nested goroutine is left behind (it leaves through its own
\* ctx.Done case once the body returns).
WorkerDeadline(i) ==
  /\ Alive
  /\ wpc[i] = "select"
  /\ body' = [body EXCEPT ![i] = "none"]
  /\ AfterAttempt(i, "timeout")
  /\ UNCHANGED <<diVars, wheelVars, cfgVars, queueVars, workers, workerStack, cancelled, condWaiters,
                 mailbox, mailboxClosed, wtask, orphanSignals, dispVars, spc,
                 clientVars, relVars, waitVars, crashed, resultCalls, errCalls, done>>

\* handleResult: which callback runs, "err", "result" or "none".
HandleResult(err, ecb, rcb) ==
  IF err /\ ecb THEN "err"
  ELSE IF rcb THEN "result"
  ELSE "none"

WorkerHandle(i) ==
  /\ Alive
  /\ wpc[i] = "handle"
  /\ LET cb == HandleResult(werr[i], errCallback, resultCallback) IN
       /\ errCalls' = [errCalls EXCEPT ![wtask[i]] = IF cb = "err" THEN @ + 1 ELSE @]
       /\ resultCalls' = [resultCalls EXCEPT ![wtask[i]] =
                            IF cb = "result" THEN @ + 1 ELSE @]
  /\ done' = done \cup {wtask[i]}
  /\ wtask' = [wtask EXCEPT ![i] = 0]
  /\ wpc' = [wpc EXCEPT ![i] = "push"]
  /\ UNCHANGED <<diVars, wheelVars, cfgVars, queueVars, workers, workerStack, cancelled, condWaiters,
                 mailbox, mailboxClosed, attempt, werr, body, orphanSignals,
                 dispVars, spc, clientVars, relVars, waitVars, crashed, hist>>

\* pushWorker: Lock; append; Unlock
WorkerPush(i) ==
  /\ Alive
  /\ wpc[i] = "push"
  /\ workerStack' = Append(workerStack, i)
  /\ wpc' = [wpc EXCEPT ![i] = "signal"]
  /\ UNCHANGED <<diVars, wheelVars, cfgVars, queueVars, workers, cancelled, condWaiters,
                 mailbox, mailboxClosed, wtask, attempt, werr, body, orphanSignals,
                 dispVars, spc, clientVars, relVars, waitVars, crashed, histVars>>

\* pushWorker: pool.cond.Signal(), after the Unlock
WorkerSignal(i) ==
  /\ Alive
  /\ wpc[i] = "signal"
  /\ Signal
  /\ wpc' = [wpc EXCEPT ![i] = "idle"]
  /\ UNCHANGED <<diVars, wheelVars, cfgVars, queueVars, workers, workerStack, cancelled,
                 mailbox, mailboxClosed, wtask, attempt, werr, body, orphanSignals,
                 hand, didx, spc, clientVars, rsnap, waitVars, crashed, histVars>>

\* A worker that adjustWorkers dropped from pool.workers between its Unlock and
\* its Signal still signals; after that it waits on its mailbox for ever.
OrphanSignal ==
  /\ Alive
  /\ orphanSignals > 0
  /\ Signal
  /\ orphanSignals' = orphanSignals - 1
  /\ UNCHANGED <<diVars, wheelVars, cfgVars, queueVars, workers, workerStack, cancelled,
                 workerVars, hand, didx, spc, clientVars, rsnap, waitVars,
                 crashed, histVars>>

\* ----------------------------------------------------------- adjustWorkers
\* len(pool.taskQueue) > len(pool.workers)*3/4 && len(pool.workers) < pool.maxWorkers
ScaleUpCond(q, n, max) == q > GoDiv(n * 3, 4) /\ n < max

\* NewWorkerNum adding one worker per tick.
NewWorkerNumByOne(n, max) == 1

\* newWorkerNum := min(len(pool.workers)*2, pool.maxWorkers) - len(pool.workers)
NewWorkerNum(n, max) == Min(n * 2, max) - n

\* len(pool.taskQueue) == 0 && len(pool.workerStack) == len(pool.workers)
\*   && len(pool.workers) > pool.minWorkers
ScaleDownCond(q, stk, n, min) == q = 0 /\ stk = n /\ n > min

\* RemoveWorkerNum without the halving.
RemoveWorkerNumNoHalf(n, min) == n - min + 1

\* RemoveWorkerNum rounding down.
RemoveWorkerNumFloor(n, min) == GoDiv(n - min, 2)

\* removeWorkerNum := (len(pool.workers) - pool.minWorkers + 1) / 2
RemoveWorkerNum(n, min) == GoDiv(n - min + 1, 2)

\* case <-ticker.C: one critical section of pool.cond.L.  The workers cut off
\* pool.workers are not closed: one that is between its Unlock and its Signal
\* still owes the Signal, the others wait on their mailbox for ever.
ScaleTick ==
  /\ Alive
  /\ spc = "loop"
  /\ LET n == Len(workers)
         q == Len(taskQueue)
     IN IF ScaleUpCond(q, n, maxWorkers)
        THEN LET new == [k \in 1..NewWorkerNum(n, maxWorkers) |-> n + k - 1] IN
             /\ workers' = workers \o new
             /\ workerStack' = workerStack \o new
             /\ wpc' = [i \in WorkerIds |-> IF i \in Range(new) THEN "idle" ELSE wpc[i]]
             /\ spc' = "bcast"
             /\ UNCHANGED orphanSignals
        ELSE IF ScaleDownCond(q, Len(workerStack), n, minWorkers)
        THEN LET r == RemoveWorkerNum(n, minWorkers)
                 gone == {workers[k] : k \in (n - r + 1)..n}
                 owing == Cardinality({i \in gone : wpc[i] = "signal"})
             IN /\ orphanSignals + owing <= MaxOrphanSignals
                /\ workers' = Take(workers, n - r)
                /\ workerStack' = Take(SortInts(workerStack), Len(workerStack) - r)
                /\ wpc' = [i \in WorkerIds |-> IF i \in gone THEN "none" ELSE wpc[i]]
                /\ orphanSignals' = orphanSignals + owing
                /\ spc' = "bcast"
        ELSE UNCHANGED <<workers, workerStack, wpc, orphanSignals, spc>>
  /\ UNCHANGED <<diVars, wheelVars, cfgVars, queueVars, cancelled, condWaiters, mailbox, mailboxClosed,
                 wtask, attempt, werr, body, dispVars, clientVars, relVars,
                 waitVars, crashed, histVars>>

\* if adjustFlag { pool.cond.Broadcast() }
ScaleBroadcast ==
  /\ Alive
  /\ spc = "bcast"
  /\ Broadcast
  /\ spc' = "loop"
  /\ UNCHANGED <<diVars, wheelVars, cfgVars, queueVars, workers, workerStack, cancelled,
                 workerVars, orphanSignals, hand, didx, clientVars, rsnap,
                 waitVars, crashed, histVars>>

\* case <-pool.ctx.Done(): return
ScaleExit ==
  /\ Alive
  /\ spc = "loop"
  /\ cancelled
  /\ spc' = "done"
  /\ UNCHANGED <<diVars, wheelVars, cfgVars, queueVars, workers, workerStack, cancelled, condWaiters,
                 workerVars, orphanSignals, dispVars, clientVars, relVars,
                 waitVars, crashed, histVars>>

\* ----------------------------------------------------------------- Release
\* close(pool.taskQueue)
ReleaseCall ==
  /\ Alive
  /\ rpc = "none"
  /\ queueClosed' = TRUE
  /\ rsnap' = 1..nextTask
  /\ rpc' = "cancel"
  /\ UNCHANGED <<diVars, wheelVars, cfgVars, taskQueue, workers, workerStack, cancelled, condWaiters,
                 workerVars, orphanSignals, dispVars, spc, clientVars,
                 waitVars, crashed, histVars>>

\* pool.cancel()
ReleaseCancel ==
  /\ Alive
  /\ rpc = "cancel"
  /\ cancelled' = TRUE
  /\ rpc' = "check"
  /\ UNCHANGED <<diVars, wheelVars, cfgVars, queueVars, workers, workerStack, condWaiters,
                 workerVars, orphanSignals, dispVars, spc, clientVars, rsnap,
                 waitVars, crashed, histVars>>

\* The test of Release's wait loop: len(pool.workerStack) != pool.minWorkers
ReleaseMustWait(stk, n, min) == stk # min

\* Lock; for len(pool.workerStack) != pool.minWorkers { cond.Wait() }; Unlock
ReleaseCheck ==
  /\ Alive
  /\ rpc = "check"
  /\ IF ReleaseMustWait(Len(workerStack), Len(workers), minWorkers)
     THEN /\ condWaiters' = condWaiters \cup {"release"}
          /\ rpc' = "waiting"
     ELSE /\ rpc' = "close"
          /\ UNCHANGED condWaiters
  /\ UNCHANGED <<diVars, wheelVars, cfgVars, queueVars, workers, workerStack, cancelled,
                 workerVars, orphanSignals, dispVars, spc, clientVars, rsnap,
                 waitVars, crashed, histVars>>

\* for _, worker := range pool.workers { close(worker.taskQueue) }
ReleaseCloseWorkers ==
  /\ Alive
  /\ rpc = "close"
  /\ mailboxClosed' = [i \in WorkerIds |-> mailboxClosed[i] \/ i \in Range(workers)]
  /\ rpc' = "nilWorkers"
  /\ UNCHANGED <<diVars, wheelVars, cfgVars, queueVars, workers, workerStack, cancelled, condWaiters,
                 mailbox, wpc, wtask, attempt, werr, body, orphanSignals, dispVars,
                 spc, clientVars, rsnap, waitVars, crashed, histVars>>

\* pool.workers = nil
ReleaseNilWorkers ==
  /\ Alive
  /\ rpc = "nilWorkers"
  /\ workers' = <<>>
  /\ rpc' = "nilStack"
  /\ UNCHANGED <<diVars, wheelVars, cfgVars, queueVars, workerStack, cancelled, condWaiters,
                 workerVars, orphanSignals, dispVars, spc, clientVars, rsnap,
                 waitVars, crashed, histVars>>

\* pool.workerStack = nil, and Release returns
ReleaseNilStack ==
  /\ Alive
  /\ rpc = "nilStack"
  /\ workerStack' = <<>>
  /\ rpc' = "returned"
  /\ UNCHANGED <<diVars, wheelVars, cfgVars, queueVars, workers, cancelled, condWaiters,
                 workerVars, orphanSignals, dispVars, spc, clientVars, rsnap,
                 waitVars, crashed, histVars>>

\* ----------------------------------------------------------- introspection
\* Each getter is one critical section of pool.lock; this is what a call made in
\* the current state returns.
\* return len(pool.workers) - len(pool.workerStack)
GetRunning == Len(workers) - Len(workerStack)

\* return len(pool.workers)
GetWorkers == Len(workers)

\* return pool.taskQueueSize
GetTaskQueenSize == taskQueueSize

\* -------------------------------------------------------------------- Wait
WaitCall ==
  /\ Alive
  /\ waitPc = "none"
  /\ waitSnap' = 1..nextTask
  /\ waitPc' = "lock"
  /\ UNCHANGED <<diVars, wheelVars, cfgVars, queueVars, workers, workerStack, cancelled, condWaiters,
                 workerVars, orphanSignals, dispVars, spc, clientVars, relVars,
                 waitLen, crashed, histVars>>

\* Lock; workerStackLen := len(pool.workerStack); Unlock
WaitReadStack ==
  /\ Alive
  /\ waitPc = "lock"
  /\ waitLen' = Len(workerStack)
  /\ waitPc' = "queue"
  /\ UNCHANGED <<diVars, wheelVars, cfgVars, queueVars, workers, workerStack, cancelled, condWaiters,
                 workerVars, orphanSignals, dispVars, spc, clientVars, relVars,
                 waitSnap, crashed, histVars>>

\* len(pool.taskQueue) == 0 && ...: the left operand; when it is false Wait
\* sleeps 50 ms and starts over.
WaitReadQueue ==
  /\ Alive
  /\ waitPc = "queue"
  /\ waitPc' = IF Len(taskQueue) = 0 THEN "workers" ELSE "lock"
  /\ UNCHANGED <<diVars, wheelVars, cfgVars, queueVars, workers, workerStack, cancelled, condWaiters,
                 workerVars, orphanSignals, dispVars, spc, clientVars, relVars,
                 waitLen, waitSnap, crashed, histVars>>

\* ... && workerStackLen == len(pool.workers): break, or sleep and start over.
WaitReadWorkers ==
  /\ Alive
  /\ waitPc = "workers"
  /\ waitPc' = IF waitLen = Len(workers) THEN "returned" ELSE "lock"
  /\ UNCHANGED <<diVars, wheelVars, cfgVars, queueVars, workers, workerStack, cancelled, condWaiters,
                 workerVars, orphanSignals, dispVars, spc, clientVars, relVars,
                 waitLen, waitSnap, crashed, histVars>>

\* --------------------------------------------------------------- TimeWheel
Keys == {"a", "b"}
ElemIds == 1..MaxAdds
StopThreads == 1..MaxStoppers

\* The process of the wheel is alive and run() has not returned.
LoopRunning == wheelPanic = "none" /\ loopPc = "running"

NoElem == [key |-> "", pos |-> 0, cycle |-> 0]

\* len(t.slots)
NumSlots == Cardinality(DOMAIN slots)

\* The delays (executeAt - now, in time units) AddTask is called with: none,
\* one interval and a bit, one revolution plus one interval and a bit.
Delays == {0, Interval + 1, (Interval * SlotNumArg) + Interval + 1}

NewTimeWheel(slotNum, intv) ==
  /\ interval = IF intv <= 0 THEN Second ELSE intv
  /\ slots = [p \in 0..((IF slotNum < MinSlotNum THEN MinSlotNum ELSE slotNum) - 1)
                |-> <<>>]
  /\ taskMap = [k \in Keys |-> 0]
  /\ elems = [e \in ElemIds |-> NoElem]
  /\ curSlot = 0
  /\ apc = "idle"
  /\ areq = 0
  /\ nAdds = 0
  /\ regs = [e \in ElemIds |-> [st |-> "unused", k |-> 0, owed |-> 0, due |-> 0,
                                cycle0 |-> 0, passes |-> 0, launches |-> 0]]
  /\ taskRun = [e \in ElemIds |-> "none"]
  /\ loopPc = "running"
  /\ tickerStopped = FALSE
  /\ tickC = 0
  /\ stopClosed = FALSE
  /\ onceDone = FALSE
  /\ onceLock = 0
  /\ stopPc = [s \in StopThreads |-> "idle"]
  /\ stopRet = [s \in StopThreads |-> 0]
  /\ wheelPanic = "none"
  /\ tickerStops = 0
  /\ closes = 0

\* GetCycle with the interval left out of the divisor.
GetCycleNoInterval(delay, intv, n) == GoDiv(delay, n)

\* getPosAndCircle, for delay = time.Until(executeAt), with cursor cur, tick
\* interval intv and n slots.
GetCycle(delay, intv, n) == GoDiv(delay, intv * n)

GetPos(delay, cur, intv, n) == GoMod(cur + GoDiv(delay, intv), n)

\* list.Remove(e) on the list l
ListRemove(l, e) == SelectSeq(l, LAMBDA x : x # e)

\* RemoveTaskOf that leaves the key in the index.
RemoveTaskKeepIndex(w, key) ==
  IF w.taskMap[key] = 0
  THEN w
  ELSE LET e == w.taskMap[key]
           pos == elems[e].pos
       IN [slots |-> [w.slots EXCEPT ![pos] = ListRemove(@, e)],
           taskMap |-> w.taskMap]

\* removeTask(key) applied to the wheel state w = [slots, taskMap]
RemoveTaskOf(w, key) ==
  IF w.taskMap[key] = 0
  THEN w
  ELSE LET e == w.taskMap[key]
           pos == elems[e].pos
       IN [slots |-> [w.slots EXCEPT ![pos] = ListRemove(@, e)],
           taskMap |-> [w.taskMap EXCEPT ![key] = 0]]

\* ReplacePrior that leaves the earlier registration in its slot.
ReplacePriorKeep(w, key) == w

\* What addTask does about an earlier registration of the key:
\* if _, ok := t.taskMap[task.key]; ok { t.removeTask(task.key) }
ReplacePrior(w, key) ==
  IF w.taskMap[key] # 0 THEN RemoveTaskOf(w, key) ELSE w

\* AddTaskOf that does not enter the element in the index.
AddTaskOfNoIndex(w, e, task) ==
  LET r == ReplacePrior(w, task.key)
  IN [slots |-> [r.slots EXCEPT ![task.pos] = Append(@, e)],
      taskMap |-> r.taskMap]

\* addTask(task) for the new list element e with TaskElement task
AddTaskOf(w, e, task) ==
  LET r == ReplacePrior(w, task.key)
  IN [slots |-> [r.slots EXCEPT ![task.pos] = Append(@, e)],
      taskMap |-> [r.taskMap EXCEPT ![task.key] = e]]

\* execute(l): the elements of l that are launched, in list order
Fired(l) == SelectSeq(l, LAMBDA e : ~(elems[e].cycle > 0))

\* execute(l) without l.Remove(e): every element stays in l.
KeptAll(l) == l

\* execute(l): the elements that stay in l, each with cycle one lower
Kept(l) == SelectSeq(l, LAMBDA e : elems[e].cycle > 0)

\* circleIncr
CircleIncr(cur, n) == (cur + 1) % n

\* ---- AddTask: the caller computes pos and cycle from the cursor it reads, then
\* blocks sending the element on the unbuffered addTaskChan.
AddTaskCall(key, delay) ==
  /\ wheelPanic = "none"
  /\ apc = "idle"
  /\ nAdds < MaxAdds
  /\ LET k == GoDiv(delay, interval) IN
       /\ areq' = [id |-> nAdds + 1, key |-> key,
                   pos |-> GetPos(delay, curSlot, interval, NumSlots),
                   cycle |-> GetCycle(delay, interval, NumSlots)]
       /\ regs' = [regs EXCEPT ![nAdds + 1] = [@ EXCEPT !.st = "sent", !.k = k,
                                                        !.owed = k]]
  /\ nAdds' = nAdds + 1
  /\ apc' = "add"
  /\ UNCHANGED <<diVars, poolVars, interval, slots, taskMap, elems, curSlot, taskRun, stopVars>>

\* The ticks from a cursor at cur until the pass of slot pos on which an element
\* with that cycle is due.
TicksUntilDue(pos, cycle, cur, n) == ((pos - cur) % n) + cycle * n

\* run: case task := <-t.addTaskChan: t.addTask(task).  addTask starts with
\* l := t.slots[task.pos]: a pos outside the slice panics with index out of
\* range; run's deferred recover catches the panic and run returns.
LoopAdd ==
  /\ LoopRunning
  /\ apc = "add"
  /\ IF areq.pos \in DOMAIN slots
     THEN /\ LET w == AddTaskOf([slots |-> slots, taskMap |-> taskMap], areq.id, areq) IN
               /\ slots' = w.slots
               /\ taskMap' = w.taskMap
          /\ elems' = [elems EXCEPT ![areq.id] =
                         [key |-> areq.key, pos |-> areq.pos, cycle |-> areq.cycle]]
          /\ regs' = [e \in ElemIds |->
                       IF e = areq.id
                       THEN [regs[e] EXCEPT !.st = "scheduled", !.cycle0 = areq.cycle,
                               !.due = TicksUntilDue(areq.pos, areq.cycle, curSlot, NumSlots)]
                       ELSE IF regs[e].st = "scheduled" /\ elems[e].key = areq.key
                       THEN [regs[e] EXCEPT !.st = "superseded", !.owed = 0, !.due = 0,
                                            !.passes = 0]
                       ELSE regs[e]]
          /\ UNCHANGED loopPc
     ELSE /\ loopPc' = "recovered"
          /\ regs' = [regs EXCEPT ![areq.id] = [@ EXCEPT !.st = "dropped"]]
          /\ UNCHANGED <<slots, taskMap, elems>>
  /\ apc' = "idle"
  /\ areq' = 0
  /\ UNCHANGED <<diVars, poolVars, interval, curSlot, nAdds, taskRun, tickerStopped,
                 tickC, stopClosed, onceDone, onceLock, stopPc, stopRet, wheelPanic,
                 tickerStops, closes>>

\* RemoveTask(key), accepted by run: case key := <-t.removeTaskChan:
\* t.removeTask(key).  The caller only hands over the key, so call and
\* acceptance are one rendezvous.
LoopRemove(key) ==
  /\ LoopRunning
  /\ apc = "idle"
  /\ LET w == RemoveTaskOf([slots |-> slots, taskMap |-> taskMap], key) IN
       /\ slots' = w.slots
       /\ taskMap' = w.taskMap
  /\ regs' = [e \in ElemIds |->
               IF regs[e].st = "scheduled" /\ elems[e].key = key
               THEN [regs[e] EXCEPT !.st = "removed", !.owed = 0, !.due = 0,
                                    !.passes = 0]
               ELSE regs[e]]
  /\ UNCHANGED <<diVars, poolVars, interval, elems, curSlot, apc, areq, nAdds, taskRun, stopVars>>

\* run: case <-t.ticker.C: t.tick(), that is execute(t.slots[t.curSlot]) and the
\* deferred circleIncr.  Every fired element is launched in a goroutine of its
\* own.  A running ticker always has its next tick to deliver; a stopped one
\* delivers only what is left in ticker.C.
Tick ==
  /\ LoopRunning
  /\ ~tickerStopped \/ tickC > 0
  /\ tickC' = 0
  /\ LET l == slots[curSlot]
         fired == Range(Fired(l))
     IN /\ slots' = [slots EXCEPT ![curSlot] = Kept(l)]
        /\ elems' = [e \in ElemIds |->
                       IF e \in Range(Kept(l))
                       THEN [elems[e] EXCEPT !.cycle = @ - 1] ELSE elems[e]]
        /\ taskMap' = [k \in Keys |->
                         IF \E e \in fired : elems[e].key = k THEN 0 ELSE taskMap[k]]
        /\ regs' = [e \in ElemIds |->
                     IF e \in fired
                     THEN [regs[e] EXCEPT !.launches = @ + 1,
                             !.st = IF @ = "scheduled" THEN "launched" ELSE @]
                     ELSE IF regs[e].st = "scheduled"
                     THEN [regs[e] EXCEPT
                             !.owed = IF @ > 0 THEN @ - 1 ELSE 0,
                             !.due = @ - 1,
                             !.passes = IF elems[e].pos = curSlot THEN @ + 1 ELSE @]
                     ELSE IF regs[e].st = "sent"
                     THEN [regs[e] EXCEPT !.owed = IF @ > 0 THEN @ - 1 ELSE 0]
                     ELSE regs[e]]
        /\ taskRun' = [e \in ElemIds |-> IF e \in fired THEN "running" ELSE taskRun[e]]
  /\ curSlot' = CircleIncr(curSlot, NumSlots)
  /\ UNCHANGED <<diVars, poolVars, interval, apc, areq, nAdds, loopPc, tickerStopped,
                 stopClosed, onceDone, onceLock, stopPc, stopRet, wheelPanic,
                 tickerStops, closes>>

\* ---- the goroutine of a launched task (execute, the go func): task.task() under
\* a deferred recover.  What becomes of the goroutine when the callback returns,
\* and when it panics.
CallbackNoRecover(panics) == IF panics THEN "died" ELSE "returned"

CallbackOutcome(panics) == IF panics THEN "recovered" ELSE "returned"

CallbackRun(e) ==
  /\ wheelPanic = "none"
  /\ taskRun[e] = "running"
  /\ \E panics \in BOOLEAN :
       LET o == CallbackOutcome(panics) IN
         /\ taskRun' = [taskRun EXCEPT ![e] = o]
         /\ wheelPanic' = IF o = "died" THEN "panic in task" ELSE wheelPanic
  /\ UNCHANGED <<diVars, poolVars, interval, slots, taskMap, elems, curSlot, apc, areq,
                 nAdds, regs, loopPc, tickerStopped, tickC, stopClosed, onceDone,
                 onceLock, stopPc, stopRet, tickerStops, closes>>

\* ---- Stop: t.Do(func() { t.ticker.Stop(); close(t.stopChan) }).
\* sync.Once.Do: a caller that finds done set returns; the others take the mutex
\* of the Once one at a time, and the holder runs f and sets done if done is
\* still unset.
OnceAlways(d) == TRUE

OnceTodo(d) == ~d

StopReturn(s) ==
  /\ stopPc' = [stopPc EXCEPT ![s] = "idle"]
  /\ stopRet' = [stopRet EXCEPT ![s] = @ + 1]

\* Do: if o.done.Load() == 0 { o.doSlow(f) }
StopCall(s) ==
  /\ wheelPanic = "none"
  /\ stopPc[s] = "idle"
  /\ stopRet[s] < MaxStopCalls
  /\ IF OnceTodo(onceDone)
     THEN stopPc' = [stopPc EXCEPT ![s] = "lock"] /\ UNCHANGED stopRet
     ELSE StopReturn(s)
  /\ UNCHANGED <<diVars, poolVars, interval, slots, taskMap, elems, curSlot, apc, areq,
                 nAdds, regs, taskRun, loopPc, tickerStopped, tickC, stopClosed,
                 onceDone, onceLock, wheelPanic, tickerStops, closes>>

\* doSlow: o.m.Lock(); if o.done.Load() == 0 { f() } (else unlock and return)
StopLock(s) ==
  /\ wheelPanic = "none"
  /\ stopPc[s] = "lock"
  /\ onceLock = 0
  /\ IF OnceTodo(onceDone)
     THEN /\ onceLock' = s
          /\ stopPc' = [stopPc EXCEPT ![s] = "ticker"]
          /\ UNCHANGED stopRet
     ELSE /\ StopReturn(s)
          /\ UNCHANGED onceLock
  /\ UNCHANGED <<diVars, poolVars, interval, slots, taskMap, elems, curSlot, apc, areq,
                 nAdds, regs, taskRun, loopPc, tickerStopped, tickC, stopClosed,
                 onceDone, wheelPanic, tickerStops, closes>>

\* f: t.ticker.Stop().  A tick the ticker delivered and run() has not received
\* stays in ticker.C.
StopTicker(s) ==
  /\ wheelPanic = "none"
  /\ stopPc[s] = "ticker"
  /\ tickerStopped' = TRUE
  /\ tickerStops' = tickerStops + 1
  /\ \E left \in {0, 1} : tickC' = IF tickerStopped THEN tickC ELSE left
  /\ stopPc' = [stopPc EXCEPT ![s] = "close"]
  /\ UNCHANGED <<diVars, poolVars, interval, slots, taskMap, elems, curSlot, apc, areq,
                 nAdds, regs, taskRun, loopPc, stopClosed, onceDone, onceLock, stopRet,
                 wheelPanic, closes>>

\* f: close(t.stopChan), which panics on a closed channel; then done is set, the
\* mutex released, and Stop returns.
StopClose(s) ==
  /\ wheelPanic = "none"
  /\ stopPc[s] = "close"
  /\ closes' = closes + 1
  /\ IF stopClosed
     THEN /\ wheelPanic' = "close of closed channel"
          /\ UNCHANGED <<stopClosed, onceDone, onceLock, stopPc, stopRet>>
     ELSE /\ stopClosed' = TRUE
          /\ onceDone' = TRUE
          /\ onceLock' = 0
          /\ StopReturn(s)
          /\ UNCHANGED wheelPanic
  /\ UNCHANGED <<diVars, poolVars, interval, slots, taskMap, elems, curSlot, apc, areq,
                 nAdds, regs, taskRun, loopPc, tickerStopped, tickC, tickerStops>>

\* run: case <-t.stopChan: return
LoopStop ==
  /\ LoopRunning
  /\ stopClosed
  /\ loopPc' = "returned"
  /\ UNCHANGED <<diVars, poolVars, interval, slots, taskMap, elems, curSlot, apc, areq,
                 nAdds, regs, taskRun, tickerStopped, tickC, stopClosed, onceDone,
                 onceLock, stopPc, stopRet, wheelPanic, tickerStops, closes>>

\* ------------------------------------------------------ DefaultContainer
initStatus == 1
runStatus == 2

\* The struct types of the container's tests, and the names they register under.
DiTypes == {"Person", "School", "NoTagStructA"}
DiNames == {"", "person", "school", "noTagStructA"}

\* A struct field: the inject tag as declared ("none": no inject key at all),
\* the kind of the field's type, the struct type a pointer field points to, and
\* whether the field is exported.
Field(decl, kind, ty) == [decl |-> decl, kind |-> kind, ty |-> ty, exported |-> TRUE]

\* Person{Name string; Age int}
\* School{TeacherCnt int32; Teacher *Person `inject:"person"`; Student *Person}
\* NoTagStructA{Person *Person `inject:""`}
FieldsOf(T) ==
  CASE T = "Person" -> <<Field("none", "string", ""), Field("none", "int", "")>>
    [] T = "School" -> <<Field("none", "int32", ""), Field("person", "ptr", "Person"),
                         Field("none", "ptr", "Person")>>
    [] T = "NoTagStructA" -> <<Field("", "ptr", "Person")>>

\* Values: a pointer to the object registered for T, a pointer to a zero T made by
\* reflect.New, a nil *T, a T passed by value, and the untyped nil.
Ptr(T) == [k |-> "ptr", ty |-> T]
New(T) == [k |-> "new", ty |-> T]
NilPtr(T) == [k |-> "nilptr", ty |-> T]
Val(T) == [k |-> "val", ty |-> T]
UntypedNil == [k |-> "nil", ty |-> ""]
Absent == [k |-> "absent", ty |-> ""]

\* What callers pass to Register as impl.
Impls == {Ptr(T) : T \in DiTypes} \cup {NilPtr("Person"), Val("Person"), UntypedNil}

\* An object as its caller built it (&T{...}): every pointer field nil.
NewObject(T) == [i \in 1..Len(FieldsOf(T)) |-> UntypedNil]

NewContainer ==
  /\ interfaceMap = [n \in DiNames \ {""} |-> Absent]
  /\ typeMap = [T \in DiTypes |-> Absent]
  /\ status = initStatus
  /\ heap = [T \in DiTypes |-> NewObject(T)]
  /\ diPanic = "none"
  /\ injected = <<>>

\* field.Tag.Get(injectTag): the value of the inject key, "" when there is none.
TagGet(decl) == IF decl = "none" THEN "" ELSE decl

\* RegisterPanic without the test of d.typeMap.
RegisterPanicNoTypeTest(name, impl) ==
  IF status # initStatus THEN "container is not initStatus, can not register"
  ELSE IF impl.k \in {"nil", "val"} THEN "can not be nil or must be a pointer"
  ELSE IF impl.k = "nilptr" THEN "interface is nil"
  ELSE IF name # "" /\ interfaceMap[name] # Absent THEN "interface already registered: name"
  ELSE "none"

\* The panic Register ends in for (name, impl), or "none".
RegisterPanic(name, impl) ==
  IF status # initStatus THEN "container is not initStatus, can not register"
  ELSE IF impl.k \in {"nil", "val"} THEN "can not be nil or must be a pointer"
  ELSE IF impl.k = "nilptr" THEN "interface is nil"
  ELSE IF name # "" /\ interfaceMap[name] # Absent THEN "interface already registered: name"
  ELSE IF typeMap[impl.ty] # Absent THEN "interface already registered: type"
  ELSE "none"

Register(name, impl) ==
  /\ diPanic' = RegisterPanic(name, impl)
  /\ IF RegisterPanic(name, impl) # "none"
     THEN UNCHANGED <<interfaceMap, typeMap, heap>>
     ELSE /\ interfaceMap' = IF name # "" THEN [interfaceMap EXCEPT ![name] = impl]
                                         ELSE interfaceMap
          /\ typeMap' = [typeMap EXCEPT ![impl.ty] = impl]
          /\ heap' = [heap EXCEPT ![impl.ty] = NewObject(impl.ty)]
  /\ UNCHANGED <<poolVars, wheelVars, status, injected>>

\* TryGet and MustGet: what a call made in the current state returns.
TryGet(name) ==
  IF name = "" THEN UntypedNil
  ELSE IF interfaceMap[name] = Absent THEN UntypedNil ELSE interfaceMap[name]

MustGet(name) ==
  IF name = "" \/ interfaceMap[name] = Absent
  THEN [val |-> UntypedNil, err |-> "interface is nil"]
  ELSE [val |-> interfaceMap[name], err |-> "none"]

\* What processInterface assigns to a pointer-to-struct field whose inject tag
\* is empty or missing: reflect.New(field.Type.Elem()).
InjectUntagged(ty) == New(ty)

\* processInterface(v, registeredMap, registeredForInterfaceSet) for v the object
\* registered for type T.  st carries the heap, registeredMap (reg: its keys; the
\* value for T is the object of T), registeredForInterfaceSet (prog), the
\* AfterInject calls made and the result: "ok", an error or a panic.
RECURSIVE ProcessInterface(_, _)
RECURSIVE ProcessFields(_, _, _)
ProcessFields(T, i, st) ==
  IF i > Len(FieldsOf(T)) THEN [st EXCEPT !.res = "ok"]
  ELSE
    LET f == FieldsOf(T)[i]
        tag == TagGet(f.decl)
    IN IF tag = ""
       THEN ProcessFields(T, i + 1,
              IF f.kind = "ptr"
              THEN [st EXCEPT !.heap[T][i] = InjectUntagged(f.ty)] ELSE st)
       ELSE IF f.kind # "ptr" THEN [st EXCEPT !.res = "error: must be a pointer"]
       ELSE IF ~f.exported THEN [st EXCEPT !.res = "error: is not exported"]
       ELSE IF interfaceMap[tag] = Absent
       THEN [st EXCEPT !.res = "error: interface with tag not registered"]
       ELSE IF f.ty \in st.reg
       THEN ProcessFields(T, i + 1, [st EXCEPT !.heap[T][i] = Ptr(f.ty)])
       ELSE LET s1 == ProcessInterface(interfaceMap[tag].ty, st) IN
              IF s1.res # "ok" THEN s1
              ELSE IF f.ty \notin s1.reg
              THEN [s1 EXCEPT !.res = "panic: reflect.Value.Set on zero Value"]
              ELSE ProcessFields(T, i + 1, [s1 EXCEPT !.heap[T][i] = Ptr(f.ty)])

ProcessInterface(T, st) ==
  IF T \in st.reg THEN [st EXCEPT !.res = "ok"]
  ELSE IF T \in st.prog THEN [st EXCEPT !.res = "panic: cycle dependency"]
  ELSE LET s1 == ProcessFields(T, 1, [st EXCEPT !.prog = @ \cup {T}]) IN
         IF s1.res # "ok" THEN s1
         ELSE [s1 EXCEPT !.reg = @ \cup {T}, !.after = Append(@, T)]

\* Initialize's loop over d.typeMap, visiting the types in the given order; each
\* type starts with an empty registeredForInterfaceSet, and an error is a panic.
RECURSIVE InitLoop(_, _)
InitLoop(order, st) ==
  IF order = <<>> \/ st.res # "ok" THEN st
  ELSE InitLoop(Tail(order), ProcessInterface(Head(order), [st EXCEPT !.prog = {}]))

\* The orders in which a range over a map with key set S can visit it.
Orders(S) ==
  {o \in [1..Cardinality(S) -> S] : \A a, b \in DOMAIN o : a # b => o[a] # o[b]}

\* AlreadyInitialized for an Initialize that never refuses.
NeverInitialized(st) == FALSE

\* if d.status == runStatus { panic("container already initialized") }
AlreadyInitialized(st) == st = runStatus

Initialize ==
  IF AlreadyInitialized(status)
  THEN /\ diPanic' = "container already initialized"
       /\ UNCHANGED <<poolVars, wheelVars, interfaceMap, typeMap, status, heap,
                      injected>>
  ELSE \E order \in Orders({T \in DiTypes : typeMap[T] # Absent}) :
         LET st == InitLoop(order, [heap |-> heap, reg |-> {}, prog |-> {},
                                    after |-> <<>>, res |-> "ok"])
         IN /\ heap' = st.heap
            /\ injected' = st.after
            /\ diPanic' = IF st.res = "ok" THEN "none" ELSE st.res
            /\ status' = IF st.res = "ok" THEN runStatus ELSE status
            /\ UNCHANGED <<poolVars, wheelVars, interfaceMap, typeMap>>

Clear ==
  /\ status' = initStatus
  /\ interfaceMap' = [n \in DiNames \ {""} |-> Absent]
  /\ typeMap' = [T \in DiTypes |-> Absent]
  /\ diPanic' = "none"
  /\ UNCHANGED <<poolVars, wheelVars, heap, injected>>

\* ------------------------------------------------------------ specification
SubmitStep ==
  \/ SubmitCall
  \/ SubmitSend

DispatchStep ==
  \/ DispatchRecv
  \/ DispatchCheck
  \/ DispatchPop
  \/ DispatchSend

\* A worker's steps around its task: take, handle the result, go back on the stack.
WorkerStep ==
  \/ \E i \in WorkerIds : WorkerTake(i)
  \/ \E i \in WorkerIds : WorkerHandle(i)
  \/ \E i \in WorkerIds : WorkerPush(i)
  \/ \E i \in WorkerIds : WorkerSignal(i)

\* An attempt under WithTimeout.  WorkerRecvErr is left out: NoErrChanSender
\* shows that no reachable state enables it.
TimeoutStep ==
  \/ \E i \in WorkerIds : WorkerSpawn(i)
  \/ \E i \in WorkerIds : BodyReturn(i)
  \/ \E i \in WorkerIds : WorkerRecvResult(i)
  \/ \E i \in WorkerIds : WorkerDeadline(i)

ScaleStep ==
  \/ ScaleTick
  \/ ScaleBroadcast
  \/ OrphanSignal

ReleaseStep ==
  \/ ReleaseCall
  \/ ReleaseCancel
  \/ ReleaseCheck
  \/ ReleaseCloseWorkers
  \/ ReleaseNilWorkers
  \/ ReleaseNilStack
  \/ ScaleExit

WaitStep ==
  \/ WaitCall
  \/ WaitReadStack
  \/ WaitReadQueue
  \/ WaitReadWorkers

\* The pool's own goroutines when no timeout is configured.
PoolStep ==
  \/ DispatchStep
  \/ WorkerStep
  \/ \E i \in WorkerIds : WorkerRunBody(i)
  \/ ScaleStep

\* Spec: a pool with scaling room (any minWorkers up to maxWorkers), a client
\* that submits tasks and a thread that calls Release.
PoolInit ==
  /\ NewContainer
  /\ NewTimeWheel(SlotNumArg, Interval)
  /\ \E min \in 0..MaxWorkers :
       NewGoroutinePool(MaxWorkers, min, QueueCap, 0, FALSE, TRUE, FALSE, {"ok"})

PoolNext ==
  \/ SubmitStep
  \/ PoolStep
  \/ ReleaseStep

Spec == PoolInit /\ [][PoolNext]_vars

\* SpecWait: the same pool with a thread that calls Wait and none that calls
\* Release.
WaitNext ==
  \/ SubmitStep
  \/ PoolStep
  \/ WaitStep

SpecWait == PoolInit /\ [][WaitNext]_vars

\* SpecExec: a pool of fixed size under every combination of WithRetryCount,
\* WithTimeout and the two callbacks, with task bodies that succeed or fail.
ExecInit ==
  /\ NewContainer
  /\ NewTimeWheel(SlotNumArg, Interval)
  /\ \E retry \in 0..MaxRetry, tmo \in BOOLEAN, rcb \in BOOLEAN, ecb \in BOOLEAN :
       NewGoroutinePool(MaxWorkers, MaxWorkers, QueueCap, retry, tmo, rcb, ecb,
                        {"ok", "err"})

ExecNext ==
  \/ SubmitStep
  \/ DispatchStep
  \/ WorkerStep
  \/ \E i \in WorkerIds : WorkerRunBody(i)
  \/ TimeoutStep
  \/ ScaleTick

SpecExec == ExecInit /\ [][ExecNext]_vars

\* SpecWheel: a timing wheel, one thread calling AddTask and RemoveTask, and
\* the control loop taking ticks, add requests and remove requests.
WheelInit ==
  /\ NewContainer
  /\ NewTimeWheel(SlotNumArg, Interval)
  /\ NewGoroutinePool(MaxWorkers, MaxWorkers, QueueCap, 0, FALSE, FALSE, FALSE, {"ok"})

WheelNext ==
  \/ \E key \in Keys, delay \in Delays : AddTaskCall(key, delay)
  \/ LoopAdd
  \/ \E key \in Keys : LoopRemove(key)
  \/ Tick

SpecWheel == WheelInit /\ [][WheelNext]_vars

\* SpecFault: a timing wheel whose callbacks return or panic.
FaultNext ==
  \/ \E key \in Keys, delay \in Delays : AddTaskCall(key, delay)
  \/ LoopAdd
  \/ Tick
  \/ \E e \in ElemIds : CallbackRun(e)

SpecFault == WheelInit /\ [][FaultNext]_vars

\* SpecStop: a ticking wheel and threads that call Stop, each several times.
\* Every goroutine that can take a step eventually takes one.
StopStep(s) ==
  \/ StopCall(s)
  \/ StopLock(s)
  \/ StopTicker(s)
  \/ StopClose(s)

StopNext ==
  \/ Tick
  \/ \E s \in StopThreads : StopStep(s)
  \/ LoopStop

SpecStop ==
  /\ WheelInit
  /\ [][StopNext]_vars
  /\ \A s \in StopThreads : WF_vars(StopStep(s))
  /\ WF_vars(LoopStop)

\* SpecLifo: a pool of MaxWorkers workers that can grow by one and shrink back,
\* never released.
LifoInit ==
  /\ NewContainer
  /\ NewTimeWheel(SlotNumArg, Interval)
  /\ NewGoroutinePool(MaxWorkers + 1, MaxWorkers, QueueCap, 0, FALSE, TRUE, FALSE,
                      {"ok"})

LifoNext ==
  \/ SubmitStep
  \/ PoolStep

SpecLifo == LifoInit /\ [][LifoNext]_vars

\* SpecPast: a timing wheel whose callers also pass instants that lie more than
\* one tick interval in the past; Stop is never called.
PastDelays == {-(Interval + 1), Interval + 1}

PastNext ==
  \/ \E key \in Keys, delay \in PastDelays : AddTaskCall(key, delay)
  \/ LoopAdd
  \/ \E key \in Keys : LoopRemove(key)
  \/ Tick

SpecPast == WheelInit /\ [][PastNext]_vars

\* SpecHandoff: callers of AddTask and RemoveTask, the control loop, and one
\* thread that calls Stop.  The loop's select takes a case that stays ready, and
\* a thread inside Stop runs on.
HandoffNext ==
  \/ \E key \in Keys : AddTaskCall(key, Interval + 1)
  \/ LoopAdd
  \/ \E key \in Keys : LoopRemove(key)
  \/ Tick
  \/ StopStep(1)
  \/ LoopStop

SpecHandoff ==
  /\ WheelInit
  /\ [][HandoffNext]_vars
  /\ WF_vars(LoopAdd)
  /\ WF_vars(LoopStop)
  /\ WF_vars(StopStep(1))

\* SpecDI: a container and a caller that registers, initializes and clears.
DINext ==
  \/ \E name \in DiNames, impl \in Impls : Register(name, impl)
  \/ Initialize
  \/ Clear

SpecDI == WheelInit /\ [][DINext]_vars

\* ------------------------------------------------------------------ claims
\* Worker i's own next step, whatever it is.
WorkerAdvance(i) ==
  \/ WorkerTake(i)
  \/ WorkerRunBody(i)
  \/ WorkerSpawn(i)
  \/ WorkerRecvResult(i)
  \/ WorkerRecvErr(i)
  \/ WorkerDeadline(i)
  \/ WorkerHandle(i)
  \/ WorkerPush(i)
  \/ WorkerSignal(i)

\* A worker waiting on errChan never finds the nested goroutine offering a send:
\* the goroutine left its select when it sent the result.
NoErrChanSender ==
  \A i \in WorkerIds : wpc[i] = "recvErr" => body[i] = "none"

\* C1 (as claimed): once Release has returned, every task whose Submit completed
\* before the Release call has been executed to completion: none is still queued,
\* held by the dispatcher, in a mailbox or running, and none was dropped.
C1_ReleaseDrains ==
  rpc = "returned" => rsnap \subseteq done

\* C4 (as claimed): once Wait has returned, every task whose Submit completed
\* before the Wait call has been dispatched and has completed: none of them is in
\* the queue, in transit in the dispatcher's hands, in a mailbox or running.
C4_WaitQuiescent ==
  waitPc = "returned" =>
    \A t \in waitSnap :
      /\ t \notin Range(taskQueue)
      /\ hand # t
      /\ \A i \in WorkerIds : t \notin Range(mailbox[i]) /\ wtask[i] # t
      /\ t \in done

\* A task whose attempts were retryCount failures and then a success.
SucceededOnLast(t) ==
  /\ Len(hist[t]) = retryCount + 1
  /\ hist[t][retryCount + 1] = "ok"
  /\ \A j \in 1..retryCount : hist[t][j] # "ok"

\* C5 (as claimed): the body of a task is invoked at most retryCount + 1 times and
\* not again after an attempt without error; a task that fails retryCount times
\* and then succeeds gets exactly one result-callback invocation and no
\* error-callback invocation: the callback has run, or the worker holding the
\* task is on its way to it.
C5_RetryThenResult ==
  \A t \in Tasks :
    /\ Len(hist[t]) <= retryCount + 1
    /\ \A j \in 1..(Len(hist[t]) - 1) : hist[t][j] # "ok"
    /\ (SucceededOnLast(t) /\ resultCallback) =>
         /\ errCalls[t] = 0
         /\ resultCalls[t] <= 1
         /\ \/ resultCalls[t] = 1
            \/ \E i \in WorkerIds : wtask[i] = t /\ ENABLED WorkerAdvance(i)

\* C6 (as claimed): a task whose final attempt ended in an error never gets the
\* result callback, whether or not an error callback is configured; only tasks
\* whose final attempt succeeded get it.
C6_NoResultCallbackOnError ==
  \A t \in done :
    /\ Last(hist[t]) # "ok" => resultCalls[t] = 0
    /\ resultCalls[t] > 0 => Last(hist[t]) = "ok"

\* C7: from creation until Release is called, minWorkers <= worker count <=
\* maxWorkers.
C7_ScaleBounds ==
  rpc = "none" => (minWorkers <= Len(workers) /\ Len(workers) <= maxWorkers)

\* C7's case: the pool grew above minWorkers and was cut back to it (a removed
\* worker still owes its Signal), and Release has not been called.
C7_Witness ==
  /\ rpc = "none"
  /\ minWorkers < maxWorkers
  /\ Len(workers) = minWorkers
  /\ orphanSignals > 0

\* C8 (as claimed): with a timeout configured, a worker whose task body finished
\* before the deadline goes on to handle the result and return to the idle
\* stack: a worker that holds a task always has a next step.
C8_WorkerNeverBlocked ==
  \A i \in WorkerIds :
    (Alive /\ timeout /\ wtask[i] # 0) => ENABLED WorkerAdvance(i)

\* C9 (as claimed): a Release call that has not returned is never stuck: while the
\* process is alive, the pool's goroutines or Release itself can take a step, for
\* every worker count scaling has reached.
C9_ReleaseNeverStuck ==
  (Alive /\ rpc \notin {"none", "returned"}) => ENABLED (PoolStep \/ ReleaseStep)

\* C10: the queue never holds more than its capacity; a Submit completes only in
\* a state where the queue is below capacity, and then its task is appended to the
\* queue; and the queue only shrinks by the dispatcher receiving its head.
C10_Backpressure ==
  /\ [](Len(taskQueue) <= taskQueueSize)
  /\ [][(cpc = "send" /\ cpc' = "idle") =>
          /\ Len(taskQueue) < taskQueueSize
          /\ taskQueue' = Append(taskQueue, nextTask + 1)]_vars
  /\ [][Len(taskQueue') < Len(taskQueue) =>
          /\ dpc = "recv"
          /\ hand' = Head(taskQueue)
          /\ taskQueue' = Tail(taskQueue)]_vars

\* C10's case: a Submit that was issued with the queue at capacity has completed
\* and its task has been executed.
C10_Witness ==
  \E t \in blockedTasks : t \in done

\* C2: a registration superseded by a later AddTask of its key is never launched;
\* no registration is launched twice; a registration is launched on its due tick
\* (the pass of its slot on which its cycle is 0), neither before it nor after it.
C2_Replacement ==
  \A e \in ElemIds :
    /\ regs[e].st = "superseded" => regs[e].launches = 0
    /\ regs[e].launches <= 1
    /\ regs[e].st = "launched" => (regs[e].launches = 1 /\ regs[e].due = 0)
    /\ regs[e].st = "scheduled" => (regs[e].launches = 0 /\ regs[e].due >= 0)

\* C2's case: a registration was superseded by a later one of the same key, and
\* the later one has been launched.
C2_Witness ==
  \E e1, e2 \in ElemIds :
    /\ e1 < e2
    /\ elems[e1].key = elems[e2].key
    /\ regs[e1].st = "superseded"
    /\ regs[e2].st = "launched"

\* C3: a task added with a delay of k tick intervals starts with cycle k /
\* slotCount, loses exactly one cycle on each pass of the cursor over its slot,
\* and is launched only on the pass on which its cycle is 0, when at least k ticks
\* have elapsed since the AddTask call.
C3_CycleCorrect ==
  \A e \in ElemIds :
    /\ regs[e].st \in {"scheduled", "launched"} =>
         regs[e].cycle0 = regs[e].k \div NumSlots
    /\ regs[e].st = "scheduled" =>
         (elems[e].cycle >= 0 /\ elems[e].cycle = regs[e].cycle0 - regs[e].passes)
    /\ regs[e].st = "launched" =>
         (regs[e].owed = 0 /\ regs[e].passes = regs[e].cycle0)

\* C3's case: a task with a delay of at least one revolution has been launched.
C3_Witness ==
  \E e \in ElemIds :
    regs[e].st = "launched" /\ regs[e].k >= NumSlots /\ regs[e].cycle0 >= 1

\* C11 (as claimed): a task added with fireAt = now is launched by the first tick
\* after the AddTask call: once the loop has accepted it, it sits with cycle 0 in
\* the slot under the cursor, which is the slot the next tick executes.
C11_ImmediateFire ==
  \A e \in ElemIds :
    (regs[e].st = "scheduled" /\ regs[e].k = 0) =>
      (elems[e].cycle = 0 /\ elems[e].pos = curSlot)

\* What a step that accepts RemoveTask(key) must do to the wheel.
RemoveEffect(key) ==
  LET e == taskMap[key] IN
    /\ curSlot' = curSlot
    /\ elems' = elems
    /\ loopPc' = loopPc
    /\ wheelPanic' = wheelPanic
    /\ \A k \in Keys \ {key} : taskMap'[k] = taskMap[k]
    /\ taskMap'[key] = 0
    /\ IF e = 0
       THEN slots' = slots /\ taskMap' = taskMap
       ELSE \A p \in DOMAIN slots :
              /\ e \notin Range(slots'[p])
              /\ slots'[p] = SelectSeq(slots[p], LAMBDA x : x # e)

\* C12: a step that accepts RemoveTask(key) takes the key's task out of its
\* bucket and out of the index and leaves every other task (slot, place in the
\* bucket, cycle), the cursor and the loop as they were; for an unscheduled key
\* it changes nothing and nothing faults; and a removed task is in no bucket, is
\* not indexed and is never launched.
C12_RemoveFrame ==
  /\ [][\A key \in Keys : LoopRemove(key) => RemoveEffect(key)]_vars
  /\ [](\A e \in ElemIds :
          regs[e].st = "removed" =>
            /\ regs[e].launches = 0
            /\ taskRun[e] = "none"
            /\ \A p \in DOMAIN slots : e \notin Range(slots[p])
            /\ \A k \in Keys : taskMap[k] # e)

\* C12's case: of two tasks in one bucket the first was removed, and the second
\* stayed in the bucket and in the index.
C12_Witness ==
  \E e1, e2 \in ElemIds :
    /\ e1 < e2
    /\ regs[e1].st = "removed"
    /\ regs[e2].st = "scheduled"
    /\ elems[e1].pos = elems[e2].pos
    /\ slots[elems[e2].pos] = <<e2>>
    /\ taskMap[elems[e2].key] = e2

\* C13: when a callback has panicked, the panic was recovered in the callback's
\* goroutine: the process and the control loop keep running and can tick, every
\* other scheduled task is still in its slot, as many ticks from its launch as
\* before, and every launched task was launched on its due tick.
C13_FaultIsolation ==
  \A f \in ElemIds :
    taskRun[f] \notin {"none", "running", "returned"} =>
      /\ taskRun[f] = "recovered"
      /\ LoopRunning
      /\ ENABLED Tick
      /\ \A e \in ElemIds \ {f} :
           /\ regs[e].st = "scheduled" =>
                /\ e \in Range(slots[elems[e].pos])
                /\ TicksUntilDue(elems[e].pos, elems[e].cycle, curSlot, NumSlots)
                     = regs[e].due
           /\ regs[e].st = "launched" =>
                (regs[e].due = 0 /\ regs[e].launches = 1 /\ taskRun[e] # "none")

\* C13's case: two tasks of the same slot and cycle were launched; the callback of
\* one panicked and the other ran to its end.
C13_Witness ==
  \E f, e \in ElemIds :
    /\ f # e
    /\ taskRun[f] = "recovered"
    /\ taskRun[e] = "returned"
    /\ elems[e].pos = elems[f].pos
    /\ regs[e].cycle0 = regs[f].cycle0

\* C14: whatever the number of Stop calls and of threads making them, the ticker
\* is stopped once and the stop channel closed once, no call panics, a Stop call
\* returns only when both are done, and after it the control loop returns.
C14_StopOnce ==
  /\ [](/\ wheelPanic = "none"
        /\ tickerStops <= 1
        /\ closes <= 1
        /\ (\E s \in StopThreads : stopRet[s] > 0) =>
             (tickerStops = 1 /\ closes = 1 /\ tickerStopped /\ stopClosed))
  /\ ((\E s \in StopThreads : stopRet[s] > 0) ~> (loopPc = "returned"))

\* C14's case: every thread has made all its Stop calls, and the loop has
\* returned.
C14_Witness ==
  /\ \A s \in StopThreads : stopRet[s] = MaxStopCalls
  /\ loopPc = "returned"
  /\ closes = 1

\* C15: from the Release call on, the queue stays closed and the pool stays
\* released; no task beyond those enqueued before the call is ever enqueued or
\* executed; and a Submit made or pending after the call can only end in the
\* panic "send on closed channel", which it is free to reach while the process
\* lives.
C15_NoSubmitAfterRelease ==
  /\ [](rpc # "none" =>
          /\ queueClosed
          /\ nextTask = Cardinality(rsnap)
          /\ Range(taskQueue) \subseteq rsnap
          /\ \A t \in Tasks \ rsnap : hist[t] = <<>> /\ t \notin done
          /\ (Alive /\ cpc = "send") => ENABLED SubmitSend)
  /\ [][rpc # "none" => (rpc' # "none" /\ queueClosed')]_vars
  /\ [][(rpc # "none" /\ cpc = "send" /\ crashed' = crashed) => cpc' = "send"]_vars

\* C15's case: Release has returned, a Submit was made, and it ended in the panic.
C15_Witness ==
  /\ rpc = "returned"
  /\ cpc = "send"
  /\ dpc # "send"
  /\ crashed = "send on closed channel"

\* Task t has been placed into a worker's mailbox.
Dispatched(t) ==
  \/ t \in done
  \/ \E i \in WorkerIds : t \in Range(mailbox[i]) \/ wtask[i] = t

\* C16: tasks are numbered in the order Submit enqueued them; at every moment the
\* tasks placed into mailboxes so far are an initial stretch of that order, the
\* dispatcher holds the next one, and the queue holds the following ones in
\* order.
C16_FifoDispatch ==
  /\ \A a, b \in Tasks : (a < b /\ Dispatched(b)) => Dispatched(a)
  /\ \A b \in Tasks : (hand = b) => \A a \in 1..(b - 1) : Dispatched(a)
  /\ \A j \in 1..Len(taskQueue) : taskQueue[j] = nextTask - Len(taskQueue) + j

\* C16's case: two workers were busy; the second task dispatched has completed,
\* the first has been dispatched and has not completed, and a third has followed.
C16_Witness ==
  /\ 2 \in done
  /\ 1 \notin done
  /\ Dispatched(1)
  /\ Dispatched(3)

\* C17 (as claimed): GetTaskQueenSize returns the number of tasks waiting in the
\* task queue.
C17_QueueSizeIsLength ==
  GetTaskQueenSize = Len(taskQueue)

\* Worker position p (a Go index into pool.workers) holds no task: its mailbox is
\* empty, it is not executing or finishing a task, and the dispatcher has not
\* taken it off the stack for the task in its hands.
HoldsNoTask(p) ==
  LET i == workers[p + 1] IN
    /\ mailbox[i] = <<>>
    /\ wtask[i] = 0
    /\ wpc[i] \in {"idle", "signal", "exited"}
    /\ ~(dpc = "send" /\ didx = p)

\* C19 (as claimed): in every state the idle stack holds pairwise distinct
\* indices below the worker count, GetRunning is the number of workers that are
\* not on the stack and is never negative, and a worker's index is on the stack
\* exactly when the worker holds no task.
C19_StackConsistent ==
  /\ \A a, b \in 1..Len(workerStack) : a # b => workerStack[a] # workerStack[b]
  /\ \A a \in 1..Len(workerStack) : workerStack[a] \in 0..(Len(workers) - 1)
  /\ GetRunning >= 0
  /\ GetRunning =
       Cardinality({p \in 0..(Len(workers) - 1) : p \notin Range(workerStack)})
  /\ \A p \in 0..(Len(workers) - 1) :
       p \in Range(workerStack) <=> HoldsNoTask(p)

\* The number of places of bucket l that hold element e.
Occurrences(l, e) == Cardinality({j \in 1..Len(l) : l[j] = e})

\* C18: the index and the slots agree.  Each indexed key refers to an element of
\* that key, which sits once in the bucket named by its pos and in no other
\* bucket; and every element in a bucket is the one its key is indexed to, so no
\* bucket holds an unindexed task or two tasks of one key.
C18_IndexAgreesWithSlots ==
  /\ \A k \in Keys :
       taskMap[k] # 0 =>
         LET e == taskMap[k] IN
           /\ elems[e].key = k
           /\ elems[e].pos \in DOMAIN slots
           /\ \A p \in DOMAIN slots :
                Occurrences(slots[p], e) = IF p = elems[e].pos THEN 1 ELSE 0
  /\ \A p \in DOMAIN slots :
       \A j \in 1..Len(slots[p]) :
         LET e == slots[p][j] IN
           /\ elems[e].pos = p
           /\ taskMap[elems[e].key] = e

\* C18's case: two tasks of different keys share a bucket that the cursor has
\* passed once without launching them.
C18_Witness ==
  \E e1, e2 \in ElemIds :
    /\ e1 # e2
    /\ regs[e1].st = "scheduled"
    /\ regs[e2].st = "scheduled"
    /\ elems[e1].pos = elems[e2].pos
    /\ regs[e1].passes >= 1
    /\ slots[elems[e1].pos] = <<e1, e2>>

\* C20 (as claimed): after Initialize, a pointer field declared with the empty
\* inject tag holds the registered component of the field's type, the instance
\* MustGet returns under its name, and not a newly allocated zero value.
C20_EmptyTagInjectsRegistered ==
  (status = runStatus) =>
    \A T \in DiTypes :
      typeMap[T] # Absent =>
        \A i \in 1..Len(FieldsOf(T)) :
          LET f == FieldsOf(T)[i] IN
            (f.decl = "" /\ f.kind = "ptr" /\ typeMap[f.ty] # Absent) =>
              /\ heap[T][i] = typeMap[f.ty]
              /\ \A n \in DiNames \ {""} :
                   (MustGet(n).err = "none" /\ MustGet(n).val.ty = f.ty) =>
                     heap[T][i] = MustGet(n).val

\* The two registries are empty.
RegistriesEmpty ==
  /\ \A n \in DiNames \ {""} : interfaceMap[n] = Absent
  /\ \A T \in DiTypes : typeMap[T] = Absent

\* C21: status goes from init to run only by an Initialize that did not panic;
\* Initialize in run status panics with "container already initialized" and
\* changes nothing; Register in run status is refused and changes nothing; Clear
\* empties both registries and sets status to init; and with status init and
\* empty registries every name and type can be registered.
C21_StatusLifecycle ==
  /\ [](status \in {initStatus, runStatus})
  /\ [][(status # runStatus /\ status' = runStatus) =>
          (Initialize /\ diPanic' = "none")]_vars
  /\ [][(status = runStatus /\ Initialize) =>
          /\ diPanic' = "container already initialized"
          /\ UNCHANGED <<interfaceMap, typeMap, status, heap>>]_vars
  /\ [][\A name \in DiNames, impl \in Impls :
          (status = runStatus /\ Register(name, impl)) =>
            /\ diPanic' = "container is not initStatus, can not register"
            /\ UNCHANGED <<interfaceMap, typeMap, status, heap>>]_vars
  /\ [][Clear => (status' = initStatus /\ RegistriesEmpty')]_vars
  /\ []((status = initStatus /\ RegistriesEmpty) =>
          \A name \in DiNames, T \in DiTypes :
            ENABLED (Register(name, Ptr(T)) /\ diPanic' = "none"
                     /\ typeMap'[T] = Ptr(T)))

\* C21's case: a container that was initialized with a NoTagStructA (whose
\* object, no longer registered, still holds what that Initialize injected) has
\* been cleared, Person has been registered again under its name, and the
\* container has been initialized again.
C21_Witness ==
  /\ status = runStatus
  /\ heap["NoTagStructA"][1] = New("Person")
  /\ typeMap["NoTagStructA"] = Absent
  /\ interfaceMap["person"] = Ptr("Person")
  /\ injected = <<"Person">>

\* What a Register(name, impl) step must do: panic and leave both registries as
\* they are when impl is nil or not a pointer, the name is taken or the type is
\* taken (or the container is running); store impl under its type, and under its
\* name when the name is not empty, otherwise.
RegisterEffect(name, impl) ==
  LET refused == \/ impl.k # "ptr"
                 \/ (name # "" /\ interfaceMap[name] # Absent)
                 \/ (impl.k = "ptr" /\ typeMap[impl.ty] # Absent)
                 \/ status # initStatus
  IN IF refused
     THEN diPanic' # "none" /\ UNCHANGED <<interfaceMap, typeMap, status>>
     ELSE /\ diPanic' = "none"
          /\ typeMap' = [typeMap EXCEPT ![impl.ty] = impl]
          /\ interfaceMap' = IF name = "" THEN interfaceMap
                             ELSE [interfaceMap EXCEPT ![name] = impl]
          /\ status' = status

WakeComing ==
  \/ \E i \in WorkerIds : ENABLED WorkerAdvance(i)
  \/ orphanSignals > 0
  \/ spc = "bcast"
  \/ /\ spc = "loop"
     /\ \/ ScaleUpCond(Len(taskQueue), Len(workers), maxWorkers)
        \/ ScaleDownCond(Len(taskQueue), Len(workerStack), Len(workers), minWorkers)
  \/ ~queueClosed

\* C23 (as claimed): no wakeup is lost.  A dispatcher blocked in cond.Wait while
\* the idle stack is non-empty has its wakeup still coming, whoever else waits on
\* the condition variable.
C23_NoLostWakeup ==
  (Alive /\ dpc = "waiting" /\ "dispatch" \in condWaiters /\ Len(workerStack) > 0)
    => WakeComing

\* C24 (as claimed): the caller of AddTask touches none of the wheel's state, so
\* the slot recorded in a request waiting for the loop is the one computed from
\* the cursor the loop has now, when it may accept the request.
C24_SlotFromLoopCursor ==
  apc = "add" =>
    areq.pos = GoMod(curSlot + regs[areq.id].k, NumSlots)

\* ceil(x / 2) for x >= 0
CeilHalf(x) == IF x % 2 = 0 THEN x \div 2 ELSE (x \div 2) + 1

\* The scaling tick's shrink case: the queue is empty, every worker is idle and
\* the worker count exceeds minWorkers.
ShrinkCase ==
  /\ Len(taskQueue) = 0
  /\ \A p \in 0..(Len(workers) - 1) : p \in Range(workerStack)
  /\ Len(workers) > minWorkers

\* The scaling tick's growth case: the queue holds more than 75% of the worker
\* count and the worker count is below maxWorkers.
GrowCase ==
  /\ 4 * Len(taskQueue) > 3 * Len(workers)
  /\ Len(workers) < maxWorkers

\* C25: a scaling tick shrinks the pool only in the shrink case; it then removes
\* exactly ceil((n - minWorkers) / 2) workers, the highest-indexed ones, and
\* leaves workers 0..n-r-1, each once on the idle stack; and a tick in the shrink
\* case (and not in the growth case) does shrink.
C25_ScaleDown ==
  /\ [][(ScaleTick /\ Len(workers') < Len(workers)) =>
          LET n == Len(workers)
              r == CeilHalf(n - minWorkers)
          IN /\ ShrinkCase
             /\ Len(workers') = n - r
             /\ workers' = [j \in 1..(n - r) |-> workers[j]]
             /\ workerStack' = [j \in 1..(n - r) |-> j - 1]]_vars
  /\ [][(ScaleTick /\ ShrinkCase /\ ~GrowCase) =>
          Len(workers') = Len(workers) - CeilHalf(Len(workers) - minWorkers)]_vars

\* C25's case: a pool with minWorkers 1 that had grown to 2 workers and executed
\* tasks has just been cut back to worker 0.
C25_Witness ==
  /\ spc = "bcast"
  /\ minWorkers = 1
  /\ workers = <<0>>
  /\ workerStack = <<0>>
  /\ 2 \in done

\* C26: a scaling tick in the growth case takes the worker count n to
\* min(2n, maxWorkers); the new workers are started and their indices pushed once
\* each on top of the idle stack; the workers there were, their mailboxes and
\* tasks, and the indices already on the stack stay as they were.
C26_ScaleUp ==
  [][(ScaleTick /\ GrowCase) =>
       LET n == Len(workers)
           m == Min(2 * n, maxWorkers)
       IN /\ Len(workers') = m
          /\ \A j \in 1..n : workers'[j] = workers[j]
          /\ workerStack' = workerStack \o [j \in 1..(m - n) |-> n + j - 1]
          /\ \A j \in (n + 1)..m : wpc'[workers'[j]] = "idle"
          /\ \A j \in 1..n : wpc'[workers[j]] = wpc[workers[j]]
          /\ mailbox' = mailbox
          /\ wtask' = wtask]_vars

\* C26's case: a pool of one worker, busy, has just grown to two, the new
\* worker's index on the idle stack.
C26_Witness ==
  /\ spc = "bcast"
  /\ workers = <<0, 1>>
  /\ workerStack = <<1>>
  /\ wtask[0] # 0
  /\ wpc[1] = "idle"

\* The idle indices that a scaling tick leaves on the stack, in the order they
\* had: the most recently idled last.
Survivors == SelectSeq(workerStack, LAMBDA p : p \in Range(workerStack'))

\* C27 (as claimed): the idle stack is ordered by the time its workers became
\* idle, and the dispatcher takes the top: a pop takes the last index; a worker
\* that finished goes on top; workers the scaler creates go on top of the ones
\* already idle; and when the scaler removes workers, the most recently idled of
\* those that remain is still on top.
C27_LifoReuse ==
  /\ [][(dpc = "pop" /\ dpc' = "send") =>
          (didx' = Last(workerStack) /\ workerStack' = Front(workerStack))]_vars
  /\ [][\A i \in WorkerIds :
          (wpc[i] = "push" /\ wpc'[i] = "signal") =>
            workerStack' = Append(workerStack, i)]_vars
  /\ [][(ScaleTick /\ Len(workers') > Len(workers)) =>
          SubSeq(workerStack', 1, Len(workerStack)) = workerStack]_vars
  /\ [][(ScaleTick /\ Len(workers') < Len(workers) /\ Survivors # <<>>) =>
          Last(workerStack') = Last(Survivors)]_vars

\* The bucket an element is linked in, if any.
InBucket(sl, e, p) == e \in Range(sl[p])

\* C28: a tick launches exactly the elements of the cursor's bucket whose cycle
\* is 0 and, in the same step, unlinks them from every bucket and deletes their
\* keys from the index; the elements of that bucket with cycle > 0 stay in it,
\* in their order, with cycle one lower and their index entries untouched; the
\* other buckets are untouched; the cursor advances by one modulo the slot
\* count.  No registration is ever launched twice.
C28_TickFrame ==
  /\ [][Tick =>
          /\ \A e \in Range(slots[curSlot]) :
               IF elems[e].cycle = 0
               THEN /\ \A p \in DOMAIN slots : ~InBucket(slots', e, p)
                    /\ taskMap'[elems[e].key] = 0
                    /\ regs'[e].launches = regs[e].launches + 1
                    /\ taskRun'[e] = "running"
               ELSE /\ InBucket(slots', e, curSlot)
                    /\ elems'[e].cycle = elems[e].cycle - 1
                    /\ elems[e].cycle > 0
                    /\ taskMap'[elems[e].key] = taskMap[elems[e].key]
                    /\ regs'[e].launches = regs[e].launches
                    /\ taskRun'[e] = taskRun[e]
          /\ slots'[curSlot] =
               SelectSeq(slots[curSlot], LAMBDA e : elems[e].cycle # 0)
          /\ \A p \in DOMAIN slots : p # curSlot => slots'[p] = slots[p]
          /\ \A e \in ElemIds :
               e \notin Range(slots[curSlot]) =>
                 (elems'[e] = elems[e] /\ regs'[e].launches = regs[e].launches)
          /\ curSlot' = (curSlot + 1) % NumSlots]_vars
  /\ [](\A e \in ElemIds : regs[e].launches <= 1)

\* Witness for C28: the tick at a bucket holding two registrations has just
\* launched one and kept the other, whose cycle went from 1 to 0.
C28_Witness ==
  \E e1, e2 \in ElemIds :
    /\ regs[e1].st = "launched" /\ regs[e1].launches = 1
    /\ regs[e2].st = "scheduled" /\ regs[e2].cycle0 = 1 /\ elems[e2].cycle = 0
    /\ elems[e1].pos = elems[e2].pos
    /\ InBucket(slots, e2, elems[e2].pos)
    /\ ~InBucket(slots, e1, elems[e1].pos)
    /\ taskMap[elems[e1].key] = 0 /\ taskMap[elems[e2].key] = e2
    /\ curSlot = (elems[e1].pos + 1) % NumSlots

\* C29 (as claimed): whenever the dispatcher is about to pop, the idle stack is
\* not empty; whenever it is about to send, the index it popped is inside the
\* worker list and that worker's mailbox is open.
C29_DispatcherSafe ==
  Alive =>
    /\ dpc = "pop" => Len(workerStack) > 0
    /\ dpc = "send" =>
         (didx < Len(workers) /\ ~mailboxClosed[workers[didx + 1]])

\* C30 (as claimed): in a pool that is never released, a task that is queued or
\* in the dispatcher's hand can always make progress: there is a worker to hand
\* it to, or the scaler's next growth creates one.
C30_NoStarvation ==
  (Alive /\ ~queueClosed /\ (hand # 0 \/ Len(taskQueue) > 0)) =>
    (Len(workers) > 0 \/ NewWorkerNum(Len(workers), maxWorkers) > 0)

\* C31 (as claimed): the slot index an AddTask call computes lies in
\* 0..slotCount-1 whatever the instant it is given, and, Stop never being
\* called, the control loop keeps running.
C31_SlotInRange ==
  /\ apc = "add" => areq.pos \in 0..(NumSlots - 1)
  /\ loopPc = "running"

\* C32 (as claimed): an AddTask call that is blocked handing its element to the
\* control loop eventually returns to its caller, also when Stop has been
\* called.
C32_HandoffReturns == (apc = "add") ~> (apc = "idle")

====
